---- MODULE Spec2Model ----
(***************************************************************************)
(* Model of many-to-many-demo.py: the Person.phone property, init_db, the  *)
(* Pet/Person many-to-many relationship, the session's unit of work and    *)
(* the seed routine under __main__.                                        *)
(*                                                                         *)
(* Python strings are sequences of one-character strings; the rows of a    *)
(* table are a bag of records.                                             *)
(***************************************************************************)
EXTENDS Integers, Sequences, FiniteSets, Bags, TLC

VARIABLES
    \* ---- Person.phone (lines 132-158) ----
    arg,        \* the string the caller holds and passes to the setter
    _phone,     \* Person._phone, the mapped column (None until written)
    op,         \* the last access of Person.phone: "new", "set" or "get"
    value,      \* the argument of the last write
    raised,     \* the exception the last access raised, or "none"
    ret,        \* what the last read returned
    \* ---- the store behind the engine (line 180) ----
    db,         \* the committed tables: name -> [exists, rows]
    tx,         \* the tables as the session's open transaction sees them
    \* ---- the objects of the domain model and the session (line 191) ----
    heap,       \* object -> its attributes (made, name, id, breed, species, shelter, phone)
    coll,       \* object -> its many-to-many collection (Pet.people, Person.pets,
                \*           BreedTraits.breeds, Breed.breed)
    snap,       \* object -> that collection as of the last flush or load
    session,    \* "none", "open" or "closed"
    inSession,  \* the objects the session holds
    seed,       \* the phone strings the seed routine passes (lines 200, 206)
    \* ---- control ----
    pc,         \* the statement about to run, or the last call made
    exc         \* the uncaught exception that ended the run, or "none"

phoneVars == <<arg, _phone, op, value, raised, ret>>

storeVars == <<db, tx>>

objVars == <<heap, coll, snap, session, inSession, seed>>

ctlVars == <<pc, exc>>

vars == <<phoneVars, storeVars, objVars, ctlVars>>

----------------------------------------------------------------------------
(* Bounds *)

\* the most separators (hyphens, spaces) put into one input string
MaxSeps == 2

\* the most rows a table holds when init_db is called
MaxRows == 1

\* the most members of one Pet.people or Person.pets collection
MaxLinks == 2

----------------------------------------------------------------------------
(* Strings *)

Digits == {"0", "1", "2", "3", "4", "5", "6", "7", "8", "9"}

Seps == {"-", " "}

\* Python's None; Person._phone before any assignment
None == <<"None">>

Min(a, b) == IF a < b THEN a ELSE b

\* F applied to the value of e, which is computed once
Bind(e, F(_)) == CHOOSE y \in {F(x) : x \in {e}} : TRUE

\* str.replace(old, new) for a one-character old
RECURSIVE Replace(_, _, _)
Replace(s, old, new) ==
    IF s = <<>> THEN <<>>
    ELSE (IF Head(s) = old THEN new ELSE <<Head(s)>>) \o Replace(Tail(s), old, new)

\* s[a:b] for 0 <= a <= b
Slice(s, a, b) == SubSeq(s, a + 1, Min(b, Len(s)))

----------------------------------------------------------------------------
(* Person.phone *)

\* lines 150-152: the number the setter measures
StripNoSpaces(v) == Replace(v, "-", <<>>)

Strip(v) == Replace(Replace(v, "-", <<>>), " ", <<>>)

LenCheckLoose(number) == Len(number) >= 10

\* line 154: the length check (TRUE: the write is accepted)
LenCheck(number) == Len(number) = 10

\* lines 146-158: the setter; the new _phone and the exception raised
PhoneSet(old, v) ==
    LET number == Strip(v)
    IN  IF ~LenCheck(number)
        THEN [phone |-> old, raised |-> "Exception"]
        ELSE [phone |-> number, raised |-> "none"]

\* line 143: "%s-%s-%s" % (num[0:3], num[3:6], num[6:10])
Format(num) == Slice(num, 0, 3) \o <<"-">> \o Slice(num, 3, 6) \o <<"-">> \o Slice(num, 6, 10)

GetNoneEmpty(num) ==
    IF num = None
    THEN [ret |-> <<"-", "-">>, raised |-> "none"]
    ELSE [ret |-> Format(num), raised |-> "none"]

\* lines 137-143: the getter; None is not subscriptable
PhoneGet(num) ==
    IF num = None
    THEN [ret |-> None, raised |-> "TypeError"]
    ELSE [ret |-> Format(num), raised |-> "none"]

----------------------------------------------------------------------------
(* Inputs of the phone property *)

Str10 == <<"5", "5", "5", "2", "4", "3", "9", "9", "8", "8">>
Str9 == <<"5", "5", "5", "5", "5", "5", "5", "5", "5">>
Str11 == <<"1", "2", "3", "4", "5", "6", "7", "8", "9", "0", "1">>
StrAlpha == <<"a", "b", "c", "d", "e", "f", "g", "h", "i", "j">>

Bases == {Str10, Str9, Str11, StrAlpha}

\* s with c put in front of position i (0 .. Len(s))
InsertAt(s, i, c) == SubSeq(s, 1, i) \o <<c>> \o SubSeq(s, i + 1, Len(s))

RECURSIVE WithSeps(_, _)
WithSeps(S, k) ==
    IF k = 0 THEN S
    ELSE WithSeps(S \cup UNION {{InsertAt(s, i, c) : i \in 0..Len(s), c \in Seps} : s \in S},
                  k - 1)

\* the strings a caller may hold
Inputs == WithSeps(Bases, MaxSeps)

\* line 200, line 206 and a string one digit short
TomPhone == <<"5", "5", "5", "-", "5", "5", "5", "-", "5", "5", "5", "5">>
SuePhone == <<"5", "5", "5", " ", "2", "4", "3", " ", "9", "9", "8", "8">>
ShortPhone == <<"5", "5", "5", "-", "5", "5", "5", "-", "5", "5", "5">>

Samples == {TomPhone, ShortPhone}

----------------------------------------------------------------------------
(* The phone property under arbitrary writes and reads *)

\* the variables a specification does not use
StoreIdle == db = <<>> /\ tx = <<>>

CtlIdle == pc = "" /\ exc = "none"

ObjIdle ==
    /\ heap = <<>> /\ coll = <<>> /\ snap = <<>>
    /\ session = "none" /\ inSession = {} /\ seed = <<>>

PhoneIdle ==
    /\ arg = <<>> /\ _phone = None /\ op = "new" /\ value = <<>>
    /\ raised = "none" /\ ret = <<>>

PhoneInit ==
    /\ StoreIdle /\ CtlIdle /\ ObjIdle
    /\ arg \in Inputs
    /\ _phone = None
    /\ op = "new"
    /\ value = <<>>
    /\ raised = "none"
    /\ ret = <<>>

DoSet(v) ==
    LET r == PhoneSet(_phone, v)
    IN  /\ _phone' = r.phone
        /\ raised' = r.raised
        /\ op' = "set"
        /\ value' = v
        /\ UNCHANGED <<arg, ret, storeVars, objVars, ctlVars>>

\* person.phone = arg
WriteArg == DoSet(arg)

\* person.phone = v, for one of the sample strings
WriteSample == \E v \in Samples : DoSet(v)

\* person.phone
Read ==
    LET r == PhoneGet(_phone)
    IN  /\ ret' = r.ret
        /\ raised' = r.raised
        /\ op' = "get"
        /\ UNCHANGED <<arg, _phone, value, storeVars, objVars, ctlVars>>

PhoneNext == WriteArg \/ WriteSample \/ Read

SpecPhone == PhoneInit /\ [][PhoneNext]_vars

----------------------------------------------------------------------------
(* The store and init_db *)

\* Base.metadata: the tables of the six mapped classes (lines 38, 60, 77,
\* 89, 111, 127) and the two association tables (lines 50, 100)
MappedTables == {"species", "breed", "breedtraits", "shelter", "pet", "person"}

Metadata == MappedTables \cup {"breed_breedtraits", "pet_person"}

NoTable == [exists |-> FALSE, rows |-> EmptyBag]

EmptyTable == [exists |-> TRUE, rows |-> EmptyBag]

\* create_engine('sqlite:///:memory:'): a store with no table
NewStore == [t \in Metadata |-> NoTable]

DropMapped(st) == [t \in DOMAIN st |-> IF t \in MappedTables THEN NoTable ELSE st[t]]

\* line 170: Base.metadata.drop_all(engine) drops every table of the metadata
DropAll(st) == [t \in DOMAIN st |-> IF t \in Metadata THEN NoTable ELSE st[t]]

\* line 171: Base.metadata.create_all(engine) creates the tables of the
\* metadata that do not exist and leaves the others as they are
CreateAll(st) ==
    [t \in DOMAIN st |-> IF t \in Metadata /\ ~st[t].exists THEN EmptyTable ELSE st[t]]

\* lines 165-173
init_db(st) == CreateAll(DropAll(st))

----------------------------------------------------------------------------
(* The domain model (lines 30-161) *)

PersonObjs == {"tom", "sue"}
PetObjs == {"spot", "goldie"}
SpeciesObjs == {"dog", "dog2", "dog3"}
BreedObjs == {"dalmatian", "golden", "dalmatian2", "golden2", "golden3", "dalmation"}
ShelterObjs == {"happy"}
TraitObjs == {"apartment", "friendly", "sheds"}

Objs == PersonObjs \cup PetObjs \cup SpeciesObjs \cup BreedObjs \cup ShelterObjs \cup TraitObjs

\* __tablename__ of the object's class
TableOf(o) ==
    IF o \in SpeciesObjs THEN "species"
    ELSE IF o \in BreedObjs THEN "breed"
    ELSE IF o \in TraitObjs THEN "breedtraits"
    ELSE IF o \in ShelterObjs THEN "shelter"
    ELSE IF o \in PetObjs THEN "pet"
    ELSE "person"

\* no object (a relationship attribute left unset)
NoObj == "none"

\* a column attribute left unset
NoValue == "None"

\* an object not constructed yet; id 0 is the id of an object with no row
Unmade ==
    [made |-> FALSE, name |-> NoValue, id |-> 0, breed |-> NoObj,
     species |-> NoObj, shelter |-> NoObj, phone |-> None]

New(name) == [Unmade EXCEPT !.made = TRUE, !.name = name]

InSeq(x, s) == \E i \in 1..Len(s) : s[i] = x

Range(s) == {s[i] : i \in 1..Len(s)}

RECURSIVE RemoveFirst(_, _)
\* list.remove(x) on a list that holds x; no change on one that does not
RemoveFirst(s, x) ==
    IF s = <<>> THEN <<>>
    ELSE IF Head(s) = x THEN Tail(s)
    ELSE <<Head(s)>> \o RemoveFirst(Tail(s), x)

\* o.<collection>.append(x): the append and the backref's append on x
\* (Pet.people / Person.pets, line 121; BreedTraits.breeds / Breed.breed, line 82)
Link(c, o, x) == [c EXCEPT ![o] = Append(@, x), ![x] = Append(@, o)]

RemoveOneSide(c, o, x) == [c EXCEPT ![o] = RemoveFirst(@, x)]

\* o.<collection>.remove(x): the removal and the backref's removal on x
Unlink(c, o, x) == [c EXCEPT ![o] = RemoveFirst(@, x), ![x] = RemoveFirst(@, o)]

RECURSIVE Assign(_, _, _)
\* o.<collection> = xs on an object whose collection is empty
\* (the people= and breeds= constructor arguments)
Assign(c, o, xs) ==
    IF xs = <<>> THEN c ELSE Assign(Link(c, o, Head(xs)), o, Tail(xs))

----------------------------------------------------------------------------
(* The session's unit of work: session.add_all, flush, commit *)

\* the objects one relationship away from o, in either direction
Neighbours(o, h, c) ==
    ({h[o].breed, h[o].species, h[o].shelter} \ {NoObj})
        \cup Range(c[o])
        \cup {x \in Objs : o \in {h[x].breed, h[x].species, h[x].shelter}}
        \cup {x \in Objs : InSeq(o, c[x])}

RECURSIVE Cascade(_, _, _)
\* the save-update cascade: everything reachable over relationships
Cascade(S, h, c) ==
    Bind(S \cup UNION {Neighbours(o, h, c) : o \in S},
         LAMBDA N : IF N = S THEN S ELSE Cascade(N, h, c))

\* the order rows are inserted in: a table after the tables it references
FlushOrder ==
    <<"dog", "dog2", "dog3", "happy", "tom", "sue", "apartment", "friendly", "sheds",
      "dalmatian", "golden", "dalmatian2", "golden2", "golden3", "dalmation",
      "spot", "goldie">>

\* the id of the row of object x, 0 (NULL) when there is none
IdOf(h, x) == IF x = NoObj THEN 0 ELSE h[x].id

\* the row of object o (columns of lines 41-42, 63-65, 80-81, 90-92, 112-117, 128-132)
RowOf(o, h, id) ==
    IF o \in BreedObjs
    THEN [id |-> id, name |-> h[o].name, species_id |-> IdOf(h, h[o].species)]
    ELSE IF o \in PetObjs
    THEN [id |-> id, name |-> h[o].name, breed_id |-> IdOf(h, h[o].breed),
          shelter_id |-> IdOf(h, h[o].shelter)]
    ELSE IF o \in PersonObjs
    THEN [id |-> id, name |-> h[o].name, _phone |-> h[o].phone]
    ELSE [id |-> id, name |-> h[o].name]

\* nullable=False: name (42, 64, 81, 91, 113, 129-130), species_id (65), breed_id (116)
NotNullOk(o, row) ==
    /\ row.name # NoValue
    /\ o \in BreedObjs => row.species_id # 0
    /\ o \in PetObjs => row.breed_id # 0

RECURSIVE FlushEntities(_, _, _, _)
\* the INSERTs of the objects of S that have no row yet, from position i of
\* FlushOrder on; stops at the first statement the store rejects
FlushEntities(i, h, st, S) ==
    IF i > Len(FlushOrder) THEN [ok |-> TRUE, err |-> "none", heap |-> h, tx |-> st]
    ELSE
        LET o == FlushOrder[i]
            t == TableOf(o)
            id == BagCardinality(st[t].rows) + 1
            row == RowOf(o, h, id)
        IN  IF o \notin S \/ h[o].id # 0 THEN FlushEntities(i + 1, h, st, S)
            ELSE IF ~st[t].exists
            THEN [ok |-> FALSE, err |-> "OperationalError", heap |-> h, tx |-> st]
            ELSE IF ~NotNullOk(o, row)
            THEN [ok |-> FALSE, err |-> "IntegrityError", heap |-> h, tx |-> st]
            ELSE Bind(<<[h EXCEPT ![o].id = id], [st EXCEPT ![t].rows = @ (+) SetToBag({row})]>>,
                      LAMBDA n : FlushEntities(i + 1, n[1], n[2], S))

\* the association table of o's collection (secondary=, lines 82 and 121)
Secondary(o) == IF o \in PetObjs \cup PersonObjs THEN "pet_person" ELSE "breed_breedtraits"

\* the class on the other end of o's collection
Members(o) ==
    IF o \in PetObjs THEN PersonObjs
    ELSE IF o \in PersonObjs THEN PetObjs
    ELSE IF o \in TraitObjs THEN BreedObjs
    ELSE IF o \in BreedObjs THEN TraitObjs
    ELSE {}

\* the association row that links o and member x of its collection
LinkRow(o, x, h) ==
    IF o \in PetObjs THEN [pet_id |-> h[o].id, person_id |-> h[x].id]
    ELSE IF o \in PersonObjs THEN [pet_id |-> h[x].id, person_id |-> h[o].id]
    ELSE IF o \in TraitObjs THEN [breed_id |-> h[x].id, breedtraits_id |-> h[o].id]
    ELSE [breed_id |-> h[o].id, breedtraits_id |-> h[x].id]

\* the members of o's collection that its snapshot does not hold, and back
Added(o, c, sn) == SelectSeq(c[o], LAMBDA x : ~InSeq(x, sn[o]))

Deleted(o, c, sn) == SelectSeq(sn[o], LAMBDA x : ~InSeq(x, c[o]))

RECURSIVE Flatten(_)
Flatten(ss) == IF ss = <<>> THEN <<>> ELSE Head(ss) \o Flatten(Tail(ss))

\* the objects of S on one side of the two relationships, in flush order
SideObjs(side, S) == SelectSeq(FlushOrder, LAMBDA o : o \in side /\ o \in S)

\* <<o, x>> for every added (deleted) member x of every o of the side
AddedPairs(side, S, c, sn) ==
    LET os == SideObjs(side, S)
    IN  Flatten([k \in 1..Len(os) |->
            [j \in 1..Len(Added(os[k], c, sn)) |-> <<os[k], Added(os[k], c, sn)[j]>>]])

DeletedPairs(side, S, c, sn) ==
    LET os == SideObjs(side, S)
    IN  Flatten([k \in 1..Len(os) |->
            [j \in 1..Len(Deleted(os[k], c, sn)) |-> <<os[k], Deleted(os[k], c, sn)[j]>>]])

\* the side that declares secondary= and the side of the backref
DeclSide == PetObjs \cup TraitObjs

BackrefSide == PersonObjs \cup BreedObjs

RECURSIVE RunInserts(_, _, _)
\* one INSERT into the association table for every pair
RunInserts(st, pairs, h) ==
    IF pairs = <<>> THEN st
    ELSE LET o == Head(pairs)[1]
             x == Head(pairs)[2]
         IN  Bind([st EXCEPT ![Secondary(o)].rows = @ (+) SetToBag({LinkRow(o, x, h)})],
                  LAMBDA n : RunInserts(n, Tail(pairs), h))

RECURSIVE RunDeletes(_, _, _, _)
\* one DELETE ... WHERE both ids match for every pair; the rows matched are counted
RunDeletes(st, pairs, h, matched) ==
    IF pairs = <<>> THEN [tx |-> st, matched |-> matched]
    ELSE LET o == Head(pairs)[1]
             x == Head(pairs)[2]
             rows == st[Secondary(o)].rows
             kept == [r \in DOMAIN rows \ {LinkRow(o, x, h)} |-> rows[r]]
         IN  Bind([st EXCEPT ![Secondary(o)].rows = kept],
                  LAMBDA n : RunDeletes(n, Tail(pairs), h,
                                        matched + CopiesIn(LinkRow(o, x, h), rows)))

\* the DELETEs, then the INSERTs, of one side of the relationships; a DELETE
\* count that differs from the rows expected is a StaleDataError
RunCrud(st, dels, ins, h) ==
    Bind(RunDeletes(st, dels, h, 0),
         LAMBDA d : IF d.matched # Len(dels)
                    THEN [ok |-> FALSE, tx |-> d.tx]
                    ELSE [ok |-> TRUE, tx |-> RunInserts(d.tx, ins, h)])

\* the association rows of the flush: the declaring side first, then what
\* the backref side holds that the declaring side has not already handled
FlushLinks(h, c, sn, S, st) ==
    Bind(<<AddedPairs(DeclSide, S, c, sn), DeletedPairs(DeclSide, S, c, sn)>>,
         LAMBDA d1 :
            Bind(<<{<<q[2], q[1]>> : q \in Range(d1[1]) \cup Range(d1[2])},
                   RunCrud(st, d1[2], d1[1], h)>>,
                 LAMBDA n :
                    LET done == n[1]
                        r1 == n[2]
                        ins2 == SelectSeq(AddedPairs(BackrefSide, S, c, sn),
                                          LAMBDA q : q \notin done)
                        del2 == SelectSeq(DeletedPairs(BackrefSide, S, c, sn),
                                          LAMBDA q : q \notin done)
                    IN  IF ~r1.ok THEN r1 ELSE RunCrud(r1.tx, del2, ins2, h)))

\* session.flush(): the pending objects' rows, then the association rows
Flush(h, c, sn, S, st) ==
    Bind(FlushEntities(1, h, st, S),
         LAMBDA e :
            IF ~e.ok
            THEN [ok |-> FALSE, err |-> e.err, heap |-> h, tx |-> e.tx, snap |-> sn]
            ELSE Bind(FlushLinks(e.heap, c, sn, S, e.tx),
                      LAMBDA l :
                        IF ~l.ok
                        THEN [ok |-> FALSE, err |-> "StaleDataError", heap |-> h,
                              tx |-> l.tx, snap |-> sn]
                        ELSE [ok |-> TRUE, err |-> "none", heap |-> e.heap, tx |-> l.tx,
                              snap |-> [o \in Objs |-> IF o \in S THEN c[o] ELSE sn[o]]]))

\* o's collection as a load reads it from the association table: each
\* linked object once
Loaded(o, h, st) ==
    SelectSeq(FlushOrder,
              LAMBDA x : /\ x \in Members(o)
                         /\ h[x].id # 0
                         /\ BagIn(LinkRow(o, x, h), st[Secondary(o)].rows))

\* a commit expires every object of the session; its collection is read from
\* the store at the next access
Reload(h, c, S, st) == [o \in Objs |-> IF o \in S THEN Loaded(o, h, st) ELSE c[o]]

KeepPartial(committed, partial) == partial

\* the rollback of a failed flush: the transaction's writes are discarded
Rollback(committed, partial) == committed

\* session.commit(): flush, then COMMIT and expire; ROLLBACK when the flush fails
Commit(h, c, sn, S, st, committed) ==
    Bind(Flush(h, c, sn, S, st),
         LAMBDA f :
            IF f.ok
            THEN [ok |-> TRUE, err |-> "none", heap |-> f.heap, db |-> f.tx, tx |-> f.tx,
                  coll |-> Reload(f.heap, c, S, f.tx), snap |-> Reload(f.heap, c, S, f.tx)]
            ELSE [ok |-> FALSE, err |-> f.err, heap |-> h,
                  db |-> Rollback(committed, f.tx), tx |-> Rollback(committed, f.tx),
                  coll |-> c, snap |-> sn])

----------------------------------------------------------------------------
(* init_db called on any store *)

\* a table holding n rows
Filled(n) == [exists |-> TRUE, rows |-> SetToBag({[id |-> i] : i \in 1..n})]

InitDbInit ==
    /\ PhoneIdle /\ ObjIdle
    /\ db \in [Metadata -> {NoTable} \cup {Filled(n) : n \in 0..MaxRows}]
    /\ tx = db
    /\ pc = "start"
    /\ exc = "none"

\* init_db(engine)
CallInitDb ==
    /\ db' = init_db(db)
    /\ tx' = db'
    /\ pc' = "init_db"
    /\ UNCHANGED <<phoneVars, objVars, exc>>

\* a row is written to an existing table
InsertRow ==
    \E t \in Metadata :
        /\ db[t].exists
        /\ BagCardinality(db[t].rows) < MaxRows
        /\ db' = [db EXCEPT ![t].rows = @ (+) SetToBag({[id |-> BagCardinality(@) + 1]})]
        /\ tx' = db'
        /\ pc' = "insert"
        /\ UNCHANGED <<phoneVars, objVars, exc>>

InitDbNext == CallInitDb \/ InsertRow

SpecInitDb == InitDbInit /\ [][InitDbNext]_vars

----------------------------------------------------------------------------
(* The seed routine (lines 176-267) *)

\* the strings the routine may be given for Tom's and Sue's phone
SeedPhones == {TomPhone, SuePhone, ShortPhone, Str11, StrAlpha}

NoObjects == [o \in Objs |-> Unmade]

NoLinks == [o \in Objs |-> <<>>]

SeedInit ==
    /\ PhoneIdle
    /\ db = <<>> /\ tx = <<>>
    /\ heap = NoObjects /\ coll = NoLinks /\ snap = NoLinks
    /\ session = "none" /\ inSession = {}
    /\ seed \in [tom : SeedPhones, sue : SeedPhones]
    /\ pc = "create_engine"
    /\ exc = "none"

\* an uncaught exception ends the script where it is raised
Abort(e) == pc' = "aborted" /\ exc' = e

\* line 180
CreateEngine ==
    /\ pc = "create_engine"
    /\ db' = NewStore /\ tx' = NewStore
    /\ pc' = "init_db"
    /\ UNCHANGED <<phoneVars, objVars, exc>>

\* lines 184-185
SeedInitDb ==
    /\ pc = "init_db"
    /\ db' = init_db(db) /\ tx' = init_db(db)
    /\ pc' = "Session"
    /\ UNCHANGED <<phoneVars, objVars, exc>>

\* lines 188-191
MakeSession ==
    /\ pc = "Session"
    /\ session' = "open"
    /\ pc' = "tom"
    /\ UNCHANGED <<phoneVars, storeVars, heap, coll, snap, inSession, seed, exc>>

\* Person(first_name=..., last_name=..., age=..., phone=v): the phone
\* argument goes through the setter
MakePerson(o, name, v, next) ==
    LET r == PhoneSet(None, v)
    IN  IF r.raised # "none"
        THEN /\ Abort(r.raised)
             /\ UNCHANGED heap
        ELSE /\ heap' = [heap EXCEPT ![o] = [New(name) EXCEPT !.phone = r.phone]]
             /\ pc' = next
             /\ UNCHANGED exc

\* lines 197-200
MakeTom ==
    /\ pc = "tom"
    /\ MakePerson("tom", "Tom", seed.tom, "sue")
    /\ UNCHANGED <<phoneVars, storeVars, coll, snap, session, inSession, seed>>

\* lines 203-206
MakeSue ==
    /\ pc = "sue"
    /\ MakePerson("sue", "Sue", seed.sue, "spot")
    /\ UNCHANGED <<phoneVars, storeVars, coll, snap, session, inSession, seed>>

\* lines 214-219
MakeSpot ==
    /\ pc = "spot"
    /\ heap' = [heap EXCEPT !["dog"] = New("Dog"),
                            !["dalmatian"] = [New("Dalmatian") EXCEPT !.species = "dog"],
                            !["spot"] = [New("Spot") EXCEPT !.breed = "dalmatian"]]
    /\ coll' = Assign(coll, "spot", <<"tom", "sue">>)
    /\ pc' = "goldie"
    /\ UNCHANGED <<phoneVars, storeVars, snap, session, inSession, seed, exc>>

\* line 224: dog = spot.breed.species
DogOf(h) == h[h["spot"].breed].species

MakeGoldieNewSpecies ==
    /\ pc = "goldie"
    /\ heap' = [heap EXCEPT !["happy"] = New("Happy Animal Place"),
                            !["dog2"] = New("Dog"),
                            !["golden"] = [New("Golden Retriever") EXCEPT !.species = "dog2"],
                            !["goldie"] = [New("Goldie") EXCEPT !.breed = "golden",
                                                                !.shelter = "happy"]]
    /\ pc' = "add_all"
    /\ UNCHANGED <<phoneVars, storeVars, coll, snap, session, inSession, seed, exc>>

\* lines 224-232
MakeGoldie ==
    /\ pc = "goldie"
    /\ heap' = [heap EXCEPT !["happy"] = New("Happy Animal Place"),
                            !["golden"] = [New("Golden Retriever") EXCEPT
                                               !.species = DogOf(heap)],
                            !["goldie"] = [New("Goldie") EXCEPT !.breed = "golden",
                                                                !.shelter = "happy"]]
    /\ pc' = "add_all"
    /\ UNCHANGED <<phoneVars, storeVars, coll, snap, session, inSession, seed, exc>>

\* line 235
AddAll1 ==
    /\ pc = "add_all"
    /\ inSession' = Cascade(inSession \cup {"spot", "goldie"}, heap, coll)
    /\ pc' = "commit"
    /\ UNCHANGED <<phoneVars, storeVars, heap, coll, snap, session, seed, exc>>

\* db_session.commit()
DoCommit(next) ==
    \E r \in {Commit(heap, coll, snap, inSession, tx, db)} :
        /\ heap' = r.heap /\ coll' = r.coll /\ snap' = r.snap
        /\ db' = r.db /\ tx' = r.tx
        /\ IF r.ok THEN pc' = next /\ UNCHANGED exc ELSE Abort(r.err)

\* line 236
Commit1 ==
    /\ pc = "commit"
    /\ DoCommit("assert_in")
    /\ UNCHANGED <<phoneVars, session, inSession, seed>>

\* line 238: assert tom in spot.people
AssertIn ==
    /\ pc = "assert_in"
    /\ IF InSeq("tom", coll["spot"]) THEN pc' = "remove" /\ UNCHANGED exc
       ELSE Abort("AssertionError")
    /\ UNCHANGED <<phoneVars, storeVars, objVars>>

\* line 239: spot.people.remove(tom)
RemoveTom ==
    /\ pc = "remove"
    /\ IF InSeq("tom", coll["spot"])
       THEN coll' = Unlink(coll, "spot", "tom") /\ pc' = "assert_out" /\ UNCHANGED exc
       ELSE UNCHANGED coll /\ Abort("ValueError")
    /\ UNCHANGED <<phoneVars, storeVars, heap, snap, session, inSession, seed>>

\* line 240: assert spot not in tom.pets; the access of tom.pets reads the
\* store, and the session flushes before it does
AssertOut ==
    /\ pc = "assert_out"
    /\ \E f \in {Flush(heap, coll, snap, inSession, tx)} :
           IF ~f.ok
           THEN /\ tx' = Rollback(db, f.tx) /\ Abort(f.err)
                /\ UNCHANGED <<heap, snap>>
           ELSE /\ tx' = f.tx /\ heap' = f.heap /\ snap' = f.snap
                /\ IF ~InSeq("spot", coll["tom"]) THEN pc' = "apartment" /\ UNCHANGED exc
                   ELSE Abort("AssertionError")
    /\ UNCHANGED <<phoneVars, db, coll, session, inSession, seed>>

\* lines 251-253
MakeApartment ==
    /\ pc = "apartment"
    /\ heap' = [heap EXCEPT !["dog2"] = New("Dog"),
                            !["dalmatian2"] = [New("Dalmatian") EXCEPT !.species = "dog2"],
                            !["golden2"] = [New("Golden Retriever") EXCEPT
                                                !.species = DogOf(heap)],
                            !["apartment"] = New("apartment")]
    /\ coll' = Assign(coll, "apartment", <<"dalmatian2", "golden2">>)
    /\ pc' = "friendly"
    /\ UNCHANGED <<phoneVars, storeVars, snap, session, inSession, seed, exc>>

\* lines 256-257
MakeFriendly ==
    /\ pc = "friendly"
    /\ heap' = [heap EXCEPT !["golden3"] = [New("Golden Retriever") EXCEPT
                                                !.species = DogOf(heap)],
                            !["friendly"] = New("friendly")]
    /\ coll' = Assign(coll, "friendly", <<"golden3">>)
    /\ pc' = "sheds"
    /\ UNCHANGED <<phoneVars, storeVars, snap, session, inSession, seed, exc>>

\* lines 260-261
MakeSheds ==
    /\ pc = "sheds"
    /\ heap' = [heap EXCEPT !["dog3"] = New("Dog"),
                            !["dalmation"] = [New("Dalmation") EXCEPT !.species = "dog3"],
                            !["sheds"] = New("sheds")]
    /\ coll' = Assign(coll, "sheds", <<"dalmation">>)
    /\ pc' = "add_all2"
    /\ UNCHANGED <<phoneVars, storeVars, snap, session, inSession, seed, exc>>

\* line 263
AddAll2 ==
    /\ pc = "add_all2"
    /\ inSession' = Cascade(inSession \cup {"apartment", "friendly", "sheds"}, heap, coll)
    /\ pc' = "commit2"
    /\ UNCHANGED <<phoneVars, storeVars, heap, coll, snap, session, seed, exc>>

\* line 264
Commit2 ==
    /\ pc = "commit2"
    /\ DoCommit("close")
    /\ UNCHANGED <<phoneVars, session, inSession, seed>>

\* lines 266-267
Close ==
    /\ pc = "close"
    /\ session' = "closed"
    /\ pc' = "done"
    /\ UNCHANGED <<phoneVars, storeVars, heap, coll, snap, inSession, seed, exc>>

SeedNext ==
    \/ CreateEngine \/ SeedInitDb \/ MakeSession \/ MakeTom \/ MakeSue
    \/ MakeSpot \/ MakeGoldie \/ AddAll1 \/ Commit1 \/ AssertIn \/ RemoveTom
    \/ AssertOut \/ MakeApartment \/ MakeFriendly \/ MakeSheds \/ AddAll2
    \/ Commit2 \/ Close

Spec == SeedInit /\ [][SeedNext]_vars

----------------------------------------------------------------------------
(* Pet.people and Person.pets under arbitrary appends, removals, flushes
   and commits *)

\* the two people, and the two pets with their breeds, species and shelter,
\* constructed as lines 197-232 construct them but with no people yet
SeedObjects ==
    [NoObjects EXCEPT
        !["tom"] = [New("Tom") EXCEPT !.phone = Strip(TomPhone)],
        !["sue"] = [New("Sue") EXCEPT !.phone = Strip(SuePhone)],
        !["dog"] = New("Dog"),
        !["dalmatian"] = [New("Dalmatian") EXCEPT !.species = "dog"],
        !["golden"] = [New("Golden Retriever") EXCEPT !.species = "dog"],
        !["happy"] = New("Happy Animal Place"),
        !["spot"] = [New("Spot") EXCEPT !.breed = "dalmatian"],
        !["goldie"] = [New("Goldie") EXCEPT !.breed = "golden", !.shelter = "happy"]]

SeedObjs == {"tom", "sue", "dog", "dalmatian", "golden", "happy", "spot", "goldie"}

\* the pet whose people the seed routine sets (line 218); goldie is given none
RelPets == {"spot"}

\* the objects whose collections the operations below change
RelObjs == RelPets \cup PersonObjs

\* the sequences over S of length at most n
SeqsUpTo(S, n) == UNION {[1..k -> S] : k \in 0..n}

RelInit ==
    /\ PhoneIdle
    /\ db = init_db(NewStore) /\ tx = init_db(NewStore)
    /\ heap = SeedObjects /\ coll = NoLinks /\ snap = NoLinks
    /\ session = "open" /\ inSession = SeedObjs
    /\ seed = <<>>
    /\ pc = "start"
    /\ exc = "none"

\* Pet(..., people=xs), as on line 218
RelAssign ==
    /\ exc = "none"
    /\ \E p \in RelPets, xs \in SeqsUpTo(PersonObjs, MaxLinks) :
        /\ xs # <<>>
        /\ coll[p] = <<>> /\ heap[p].id = 0
        /\ \A q \in PersonObjs : Len(Assign(coll, p, xs)[q]) <= MaxLinks
        /\ coll' = Assign(coll, p, xs)
    /\ pc' = "assign"
    /\ UNCHANGED <<phoneVars, storeVars, heap, snap, session, inSession, seed, exc>>

\* pet.people.append(person) or person.pets.append(pet)
RelAppend ==
    /\ exc = "none"
    /\ \E o \in RelObjs :
        \E x \in Members(o) \cap RelObjs :
            /\ Len(coll[o]) < MaxLinks /\ Len(coll[x]) < MaxLinks
            /\ coll' = Link(coll, o, x)
    /\ pc' = "append"
    /\ UNCHANGED <<phoneVars, storeVars, heap, snap, session, inSession, seed, exc>>

\* pet.people.remove(person) or person.pets.remove(pet), as on line 239
RelRemove ==
    /\ exc = "none"
    /\ \E o \in RelObjs :
        \E x \in Members(o) \cap RelObjs :
            /\ InSeq(x, coll[o])
            /\ coll' = Unlink(coll, o, x)
    /\ pc' = "remove"
    /\ UNCHANGED <<phoneVars, storeVars, heap, snap, session, inSession, seed, exc>>

\* a flush of the session (the one before a load, as on line 240)
RelFlush ==
    /\ exc = "none"
    /\ \E f \in {Flush(heap, coll, snap, inSession, tx)} :
           IF ~f.ok
           THEN /\ tx' = Rollback(db, f.tx) /\ Abort(f.err)
                /\ UNCHANGED <<heap, snap>>
           ELSE /\ tx' = f.tx /\ heap' = f.heap /\ snap' = f.snap
                /\ pc' = "flush" /\ UNCHANGED exc
    /\ UNCHANGED <<phoneVars, db, coll, session, inSession, seed>>

\* db_session.commit(), as on lines 236 and 264
RelCommit ==
    /\ exc = "none"
    /\ DoCommit("commit")
    /\ UNCHANGED <<phoneVars, session, inSession, seed>>

RelNext == RelAssign \/ RelAppend \/ RelRemove \/ RelFlush \/ RelCommit

SpecRel == RelInit /\ [][RelNext]_vars

----------------------------------------------------------------------------
(* The commit of a staged object graph *)

\* the graphs staged: lines 197-232 with any of the required names, breeds
\* and species left out, and spot given none, one or both of the people
Graphs ==
    {[SeedObjects EXCEPT !["tom"].name = tn, !["dog"].name = dn,
                         !["spot"].breed = sb, !["goldie"].breed = gb,
                         !["dalmatian"].species = ds, !["golden"].species = gs] :
        tn \in {"Tom", NoValue}, dn \in {"Dog", NoValue},
        sb \in {"dalmatian", NoObj}, gb \in {"golden", NoObj},
        ds \in {"dog", NoObj}, gs \in {"dog", NoObj}}

GraphInit ==
    /\ PhoneIdle
    /\ db = init_db(NewStore) /\ tx = init_db(NewStore)
    /\ heap \in Graphs
    /\ coll \in {Assign(NoLinks, "spot", xs) : xs \in {<<>>, <<"tom">>, <<"tom", "sue">>}}
    /\ snap = NoLinks
    /\ session = "open" /\ inSession = {}
    /\ seed = <<>>
    /\ pc = "add_all"
    /\ exc = "none"

\* db_session.add_all([spot, goldie]), line 235
GraphAddAll ==
    /\ pc = "add_all"
    /\ inSession' = Cascade({"spot", "goldie"}, heap, coll)
    /\ pc' = "commit"
    /\ UNCHANGED <<phoneVars, storeVars, heap, coll, snap, session, seed, exc>>

\* db_session.commit(), line 236
GraphCommit ==
    /\ pc = "commit"
    /\ DoCommit("committed")
    /\ UNCHANGED <<phoneVars, session, inSession, seed>>

GraphNext == GraphAddAll \/ GraphCommit

SpecCommit == GraphInit /\ [][GraphNext]_vars

----------------------------------------------------------------------------
(* Properties of the phone property *)

IsDigit(c) == c \in Digits

IsSep(c) == c \in Seps

NotSep(c) == c \notin Seps

\* v is digits, hyphens and spaces only, with exactly 10 digits
ValidFormat(v) ==
    /\ \A i \in 1..Len(v) : IsDigit(v[i]) \/ IsSep(v[i])
    /\ Len(SelectSeq(v, IsDigit)) = 10

\* r is the 10 digits d grouped 3-3-4 with hyphens
Grouped(r, d) ==
    /\ Len(r) = 12
    /\ r[4] = "-"
    /\ r[8] = "-"
    /\ \A i \in 1..10 : r[i + (IF i <= 3 THEN 0 ELSE IF i <= 6 THEN 1 ELSE 2)] = d[i]

\* C1: when the last write passed a string of digits, hyphens and spaces
\* holding exactly 10 digits, the write succeeded, _phone is those digits in
\* their order with no separator, and a read returns them as DDD-DDD-DDDD.
C1_ValidWriteRoundTrip ==
    (op \in {"set", "get"} /\ ValidFormat(value)) =>
        /\ _phone = SelectSeq(value, IsDigit)
        /\ op = "set" => raised = "none"
        /\ PhoneGet(_phone).raised = "none"
        /\ Grouped(PhoneGet(_phone).ret, SelectSeq(value, IsDigit))
        /\ op = "get" => (raised = "none" /\ Grouped(ret, SelectSeq(value, IsDigit)))

\* Sue's number (line 206) was written and read back
C1_Witness ==
    /\ op = "get"
    /\ value = SuePhone
    /\ _phone = Str10
    /\ ret = <<"5", "5", "5", "-", "2", "4", "3", "-", "9", "9", "8", "8">>

\* C2: a write whose argument, hyphens and spaces removed, is not 10 long
\* raises and leaves _phone as it was before the write.
C2_BadLengthRejected ==
    [][(op' = "set" /\ Len(SelectSeq(value', NotSep)) # 10) =>
            (raised' = "Exception" /\ _phone' = _phone)]_vars

\* a short number was rejected while an earlier valid number was stored
C2_Witness ==
    /\ op = "set"
    /\ value = ShortPhone
    /\ raised = "Exception"
    /\ _phone = Strip(TomPhone)

\* C3: the stored phone, once set, is exactly 10 characters, all digits.
C3_StoredIsTenDigits ==
    _phone # None => (Len(_phone) = 10 /\ \A i \in 1..Len(_phone) : IsDigit(_phone[i]))

\* C10: a read fails exactly while _phone is unset; _phone is unset at
\* construction, only a successful write sets it, a successful write always
\* sets it, and once set it stays set.
C10_ReadNeedsWrite ==
    /\ [](op = "new" => _phone = None)
    /\ [](op = "get" => /\ (_phone = None) => (raised = "TypeError" /\ ret = None)
                        /\ (_phone # None) => (raised = "none" /\ Len(ret) = 12))
    /\ [][(_phone = None /\ _phone' # None) => (op' = "set" /\ raised' = "none")]_vars
    /\ [][(op' = "set" /\ raised' = "none") => _phone' # None]_vars
    /\ [][_phone # None => _phone' # None]_vars

\* a read failed after the only write so far was rejected
C10_Witness ==
    /\ op = "get"
    /\ value = ShortPhone
    /\ raised = "TypeError"
    /\ _phone = None

\* the eight tables the schema declares
SchemaTables ==
    {"species", "breed", "breedtraits", "shelter", "pet", "person",
     "breed_breedtraits", "pet_person"}

\* C8: whatever the store held, a call of init_db leaves all eight schema
\* tables present and empty, and a call made right after another call leaves
\* the store as it was.
C8_InitDbIdempotentReset ==
    [][pc' = "init_db" =>
        /\ DOMAIN db' = SchemaTables
        /\ \A t \in SchemaTables : db'[t].exists /\ BagCardinality(db'[t].rows) = 0
        /\ pc = "init_db" => db' = db]_vars

\* init_db has just been called and the eight tables are present and empty
C8_Witness ==
    /\ pc = "init_db"
    /\ \A t \in SchemaTables : db[t] = EmptyTable

----------------------------------------------------------------------------
(* Properties of the relationships, the commit and the seed routine *)

\* C4: a person is in a pet's people exactly when the pet is in the
\* person's pets, in every state; a commit keeps every membership, so the
\* people a pet was given are its people after the commit, and it is in the
\* pets of each.
C4_PeoplePetsSymmetric ==
    /\ [](\A p \in PetObjs, q \in PersonObjs : InSeq(q, coll[p]) <=> InSeq(p, coll[q]))
    /\ [][pc' = "commit" =>
            \A p \in PetObjs, q \in PersonObjs :
                /\ InSeq(q, coll'[p]) <=> InSeq(q, coll[p])
                /\ InSeq(p, coll'[q]) <=> InSeq(p, coll[q])]_vars

\* spot was given tom and sue and the session has committed
C4_Witness ==
    /\ pc = "commit"
    /\ coll["spot"] = <<"tom", "sue">>
    /\ coll["tom"] = <<"spot">>
    /\ coll["sue"] = <<"spot">>
    /\ BagCardinality(db["pet_person"].rows) = 2

\* C5: after every flush or commit the pet_person table holds exactly one
\* row for each linked (Pet, Person) pair and none for any other pair.
C5_OneRowPerLinkedPair ==
    pc \in {"flush", "commit"} =>
        \A p \in PetObjs, q \in PersonObjs :
            CopiesIn(LinkRow(p, q, heap), tx["pet_person"].rows)
                = IF InSeq(q, coll[p]) THEN 1 ELSE 0

\* the objects of the session whose rows go to table t
ObjsOf(t) == {o \in inSession : TableOf(o) = t}

\* the store holds no row at all
NoRows(st) == \A t \in SchemaTables : BagCardinality(st[t].rows) = 0

\* the store holds one row for each object of the session, with its name,
\* and one pet_person row for each person of each pet
AllRows(st) ==
    /\ \A t \in MappedTables : BagCardinality(st[t].rows) = Cardinality(ObjsOf(t))
    /\ \A o \in inSession :
        \E r \in BagToSet(st[TableOf(o)].rows) : r.id = heap[o].id /\ r.name = heap[o].name
    /\ \A p \in PetObjs \cap inSession :
        \A i \in 1..Len(coll[p]) : BagIn(LinkRow(p, coll[p][i], heap), st["pet_person"].rows)
    /\ BagCardinality(st["pet_person"].rows) = Len(coll["spot"]) + Len(coll["goldie"])

\* every object of the session can be written: it has its name, a pet its
\* breed and a breed its species
Writable ==
    \A o \in inSession :
        /\ heap[o].name # NoValue
        /\ o \in PetObjs => heap[o].breed # NoObj
        /\ o \in BreedObjs => heap[o].species # NoObj

\* C6: the store holds either none or all of the rows of the staged graph;
\* it holds none after a commit that failed, which is the case exactly when
\* some row of the graph cannot be written, and all after one that succeeded.
C6_CommitAtomic ==
    /\ NoRows(db) \/ AllRows(db)
    /\ pc = "aborted" => (NoRows(db) /\ NoRows(tx) /\ ~Writable /\ exc = "IntegrityError")
    /\ pc = "committed" => (AllRows(db) /\ Writable)

\* the commit failed on spot, which has no breed, after the rows of the
\* people, the species and the breeds had been written
C6_Witness ==
    /\ pc = "aborted"
    /\ heap["spot"].breed = NoObj
    /\ \A o \in inSession \ {"spot"} : heap[o].name # NoValue
    /\ heap["goldie"].breed = "golden" /\ heap["golden"].species = "dog"
    /\ coll["spot"] = <<"tom", "sue">>
    /\ NoRows(db)

\* the first commit of the seed routine is done and the second is not
AfterCommit1 ==
    pc \in {"assert_in", "remove", "assert_out", "apartment", "friendly", "sheds",
            "add_all2", "commit2"}

\* C7: after spot and goldie are committed the store holds exactly one
\* species row, exactly two breed rows that both reference it, and exactly
\* two pet rows.
C7_OneSpeciesRow ==
    AfterCommit1 =>
        /\ BagCardinality(db["species"].rows) = 1
        /\ BagCardinality(db["breed"].rows) = 2
        /\ \A b \in BagToSet(db["breed"].rows) :
            \A sp \in BagToSet(db["species"].rows) : b.species_id = sp.id
        /\ {b.name : b \in BagToSet(db["breed"].rows)} = {"Dalmatian", "Golden Retriever"}
        /\ BagCardinality(db["pet"].rows) = 2

\* the commit of line 236 is done; both breeds have the one Species object
C7_Witness ==
    /\ pc = "assert_in"
    /\ heap["dalmatian"].species = "dog"
    /\ heap["golden"].species = "dog"
    /\ BagCardinality(db["species"].rows) = 1

\* C9: when the seed routine has ended, by its last statement or by an
\* exception, a session that was created has been closed.
C9_SessionClosedAtEnd ==
    (pc \in {"done", "aborted"} /\ session # "none") => session = "closed"

====
